---- MODULE Spec2Model ----
(***************************************************************************)
(* CALIPSO HDF -> LAS -> COPC conversion (calipso_to_las.py and            *)
(* convert_tiled.py) as a state machine.                                   *)
(*                                                                         *)
(* Units.  Latitude and longitude are whole degrees.  Backscatter          *)
(* intensities are floats: a finite one is an integer count of 1e-5        *)
(* 1/(km sr), so -0.2 is -20000 and 3.5 is 350000; NaN and the two         *)
(* infinities are values of their own.  An altitude is the exact rational  *)
(* n/d kilometres.  Sequences are 1-based: the code's index k is k + 1.    *)
(***************************************************************************)
EXTENDS Integers, Sequences, FiniteSets, TLC

(* ------------------------------ bounds --------------------------------- *)
\* Largest number of profiles (rows) of an input file.
MaxProfiles == 2
\* Largest number of altitude bins (columns) of an input file.
MaxAlt == 2
\* Largest number of backscatter cells (rows * columns) of an input file.
MaxCells == 4
\* Largest bin count handed to get_calipso_altitudes on its own.
MaxBins == 60
\* Largest number of points handed to write_las on its own.
MaxWritePoints == 2
\* Largest number of profiles of a file whose tiles are compared.
MaxTileProfiles == 2

(* ------------------------------ floats --------------------------------- *)
Fin(v) == [kind |-> "fin", val |-> v]
NaN == [kind |-> "nan", val |-> 0]
PosInf == [kind |-> "inf", val |-> 1]
NegInf == [kind |-> "inf", val |-> -1]

\* x > c for a float x and a finite bound c (any comparison with NaN is false)
FGt(x, c) == \/ (x.kind = "fin" /\ x.val > c)
             \/ (x.kind = "inf" /\ x.val = 1)
\* x < c
FLt(x, c) == \/ (x.kind = "fin" /\ x.val < c)
             \/ (x.kind = "inf" /\ x.val = -1)
\* np.isfinite
IsFinite(x) == x.kind = "fin"

(* ------------------------- altitude grid ------------------------------- *)
ALT_MIN == -2
ALT_MAX == 40

Rat(n, d) == [n |-> n, d |-> d]
RatLt(a, b) == a.n * b.d < b.n * a.d
RatEq(a, b) == a.n * b.d = b.n * a.d

\* np.linspace(start, stop, num), endpoint included: num samples start + k*step
\* with step = (stop - start) / (num - 1), the last one set to stop itself; one
\* sample is start alone, none is the empty array.
linspace_bug(start, stop, num) ==
    IF num <= 0 THEN <<>>
    ELSE [k \in 1..num |-> Rat(start * num + (k - 1) * (stop - start), num)]
linspace(start, stop, num) ==
    IF num <= 0 THEN <<>>
    ELSE IF num = 1 THEN <<Rat(start, 1)>>
    ELSE [k \in 1..num |->
            IF k = num THEN Rat(stop * (num - 1), num - 1)
            ELSE Rat(start * (num - 1) + (k - 1) * (stop - start), num - 1)]

get_calipso_altitudes(n_bins) == linspace(ALT_MIN, ALT_MAX, n_bins)

(* --------------------------- array helpers ----------------------------- *)
\* np.repeat(arr, n): every element n times in a row
RECURSIVE np_repeat(_, _)
np_repeat(arr, n) ==
    IF arr = <<>> THEN <<>>
    ELSE [k \in 1..n |-> Head(arr)] \o np_repeat(Tail(arr), n)

\* np.tile(arr, reps): the whole array reps times over
RECURSIVE np_tile(_, _)
np_tile(arr, reps) ==
    IF reps <= 0 THEN <<>> ELSE arr \o np_tile(arr, reps - 1)

\* ndarray.flatten() of a 2-D array held as a sequence of rows (C order)
RECURSIVE flatten(_)
flatten(rows) ==
    IF rows = <<>> THEN <<>> ELSE Head(rows) \o flatten(Tail(rows))

\* arr[mask] for a boolean mask of the same length
RECURSIVE mask_select(_, _)
mask_select(arr, mask) ==
    IF arr = <<>> THEN <<>>
    ELSE (IF Head(mask) THEN <<Head(arr)>> ELSE <<>>)
         \o mask_select(Tail(arr), Tail(mask))

\* np.sum(mask)
RECURSIVE np_sum(_)
np_sum(mask) ==
    IF mask = <<>> THEN 0
    ELSE (IF Head(mask) THEN 1 ELSE 0) + np_sum(Tail(mask))

(* --------------------------- optional values -------------------------- *)
\* A keyword argument that may be None: the empty set is None, {v} is v.
None == {}
Some(v) == {v}

(* ------------------------------ exceptions ----------------------------- *)
Exc(type, at) == [type |-> type, at |-> at]
NoExc == Exc("none", "none")

(* ------------------------------ the input ------------------------------ *)
FieldNames == {"Latitude", "Longitude", "Profile_Time",
               "Total_Attenuated_Backscatter_532", "Attenuated_Backscatter_1064"}

\* One profile: latitude, longitude (degrees), acquisition time (TAI seconds)
ProfileSamples == { [lat |-> -60, lon |-> -10, time |-> 100],
                    [lat |-> 0, lon |-> 0, time |-> 200],
                    [lat |-> 45, lon |-> 20, time |-> 300] }

\* One backscatter cell <<532 nm, 1064 nm>>: two valid ones and the -9999 fill
PipelineCells == { <<Fin(0), Fin(100000)>>,
                   <<Fin(150000), Fin(-5000)>>,
                   <<Fin(-999900000), Fin(-999900000)>> }

\* Cells at, next to and beyond the bounds of the validity mask
BuilderCells == { <<Fin(0), Fin(0)>>,
                  <<Fin(400000), Fin(0)>>,
                  <<Fin(350000), Fin(100000)>>,
                  <<Fin(-20000), Fin(259999)>>,
                  <<Fin(-19999), Fin(-10000)>>,
                  <<Fin(349999), Fin(260000)>>,
                  <<NaN, Fin(0)>>,
                  <<Fin(0), PosInf>> }

\* An HDF4 file: whether SD() can open it, the datasets it lacks, and the
\* datasets' contents (profile vectors of length P, grids of P rows by A columns).
MkFile(openable, missing, P, A, profs, cells) ==
    [openable |-> openable, missing |-> missing, shape |-> <<P, A>>,
     lat |-> [i \in 1..P |-> profs[i].lat],
     lon |-> [i \in 1..P |-> profs[i].lon],
     profile_time |-> [i \in 1..P |-> profs[i].time],
     bs532 |-> [i \in 1..P |-> [j \in 1..A |-> cells[i][j][1]]],
     bs1064 |-> [i \in 1..P |-> [j \in 1..A |-> cells[i][j][2]]]]

Shapes == { s \in (0..MaxProfiles) \X (0..MaxAlt) : s[1] * s[2] <= MaxCells }

\* file is a readable file with every dataset present and cells drawn from Cells
IsGoodFile(f, Cells) ==
    \E s \in Shapes :
      \E profs \in [1..s[1] -> ProfileSamples], cells \in [1..s[1] -> [1..s[2] -> Cells]] :
        f = MkFile(TRUE, {}, s[1], s[2], profs, cells)

OneCell == [i \in 1..1 |-> [j \in 1..1 |-> <<Fin(0), Fin(0)>>]]
OneProfile == [i \in 1..1 |-> [lat |-> 0, lon |-> 20, time |-> 200]]
BrokenFiles ==
    { MkFile(FALSE, {}, 1, 1, OneProfile, OneCell) }
    \cup { MkFile(TRUE, {f}, 1, 1, OneProfile, OneCell) : f \in FieldNames }

EmptyFile == MkFile(FALSE, {}, 0, 0, <<>>, <<>>)

(* ------------------------------ the tiles ------------------------------ *)
LatitudeTiles_gap ==
    << [name |-> "south", lat_min |-> -90, lat_max |-> -30],
       [name |-> "south_mid", lat_min |-> -30, lat_max |-> 0],
       [name |-> "north_mid", lat_min |-> 1, lat_max |-> 30],
       [name |-> "north", lat_min |-> 30, lat_max |-> 90] >>
LatitudeTiles ==
    << [name |-> "south", lat_min |-> -90, lat_max |-> -30],
       [name |-> "south_mid", lat_min |-> -30, lat_max |-> 0],
       [name |-> "north_mid", lat_min |-> 0, lat_max |-> 30],
       [name |-> "north", lat_min |-> 30, lat_max |-> 90] >>

TileNames == { LatitudeTiles[i].name : i \in 1..Len(LatitudeTiles) }
\* Output paths: one per tile, and the path of a direct conversion
Paths == TileNames \cup {"single"}

NoArgs == [lon_min |-> None, lon_max |-> None, lat_min |-> None, lat_max |-> None]
\* The keyword arguments a direct caller of convert_calipso_to_las may pass
ArgChoices == [lon_min : {None, Some(0)}, lon_max : {None, Some(0)},
               lat_min : {None, Some(0)}, lat_max : {None, Some(0)}]

(* --------------------------- the point cloud --------------------------- *)
BS532_LO == -20000
BS532_HI == 350000
BS1064_LO == -10000
BS1064_HI == 260000

EmptyData == [lat |-> <<>>, lon |-> <<>>, altitudes |-> <<>>,
              backscatter_532 |-> <<>>, backscatter_1064 |-> <<>>,
              profile_time |-> <<>>]

\* The dictionary read_calipso_hdf returns for a file it can read
reader_output(f) ==
    [lat |-> f.lat, lon |-> f.lon,
     altitudes |-> get_calipso_altitudes(f.shape[2]),
     backscatter_532 |-> f.bs532, backscatter_1064 |-> f.bs1064,
     profile_time |-> f.profile_time]

EmptyCloud == [lon |-> <<>>, lat |-> <<>>, alt |-> <<>>, intensity_532 |-> <<>>,
               intensity_1064 |-> <<>>, gps_time |-> <<>>]

\* create_point_cloud, first half: the six flattened candidate arrays
candidates_swapped(d) ==
    LET n_profiles == Len(d.lat)
        n_altitudes == Len(d.altitudes)
    IN  [lon |-> np_tile(d.lon, n_altitudes),
         lat |-> np_tile(d.lat, n_altitudes),
         alt |-> np_repeat(d.altitudes, n_profiles),
         intensity_532 |-> flatten(d.backscatter_532),
         intensity_1064 |-> flatten(d.backscatter_1064),
         gps_time |-> np_tile(d.profile_time, n_altitudes)]
candidates_short(d) ==
    LET n_profiles == Len(d.lat)
        n_altitudes == Len(d.altitudes)
    IN  [lon |-> np_repeat(d.lon, n_altitudes),
         lat |-> np_repeat(d.lat, n_altitudes),
         alt |-> d.altitudes,
         intensity_532 |-> flatten(d.backscatter_532),
         intensity_1064 |-> flatten(d.backscatter_1064),
         gps_time |-> np_repeat(d.profile_time, n_altitudes)]
candidates(d) ==
    LET n_profiles == Len(d.lat)
        n_altitudes == Len(d.altitudes)
    IN  [lon |-> np_repeat(d.lon, n_altitudes),
         lat |-> np_repeat(d.lat, n_altitudes),
         alt |-> np_tile(d.altitudes, n_profiles),
         intensity_532 |-> flatten(d.backscatter_532),
         intensity_1064 |-> flatten(d.backscatter_1064),
         gps_time |-> np_repeat(d.profile_time, n_altitudes)]

\* One element of valid_mask
valid_inclusive(bs_532, bs_1064) ==
    /\ ~FLt(bs_532, BS532_LO) /\ ~FGt(bs_532, BS532_HI)
    /\ ~FLt(bs_1064, BS1064_LO) /\ ~FGt(bs_1064, BS1064_HI)
    /\ IsFinite(bs_532) /\ IsFinite(bs_1064)
valid(bs_532, bs_1064) ==
    /\ FGt(bs_532, BS532_LO) /\ FLt(bs_532, BS532_HI)
    /\ FGt(bs_1064, BS1064_LO) /\ FLt(bs_1064, BS1064_HI)
    /\ IsFinite(bs_532) /\ IsFinite(bs_1064)

valid_mask(c) ==
    [k \in 1..Len(c.intensity_532) |-> valid(c.intensity_532[k], c.intensity_1064[k])]

\* Boolean-mask indexing of all six arrays
apply_mask(c, mask) ==
    [lon |-> mask_select(c.lon, mask),
     lat |-> mask_select(c.lat, mask),
     alt |-> mask_select(c.alt, mask),
     intensity_532 |-> mask_select(c.intensity_532, mask),
     intensity_1064 |-> mask_select(c.intensity_1064, mask),
     gps_time |-> mask_select(c.gps_time, mask)]

\* create_point_cloud, second half: what it returns for the candidates c
masked_cloud(c) == apply_mask(c, valid_mask(c))

(* --------------------------- the spatial filter ------------------------ *)
filter_applied_always(a) == TRUE
filter_applied(a) ==
    \/ a.lon_min # None \/ a.lon_max # None
    \/ a.lat_min # None \/ a.lat_max # None

\* One element of the mask convert_calipso_to_las builds
in_bounds_zero_default(lon, lat, a) ==
    /\ lon >= (IF a.lon_min = None THEN 0 ELSE CHOOSE b \in a.lon_min : TRUE)
    /\ \A b \in a.lon_max : lon <= b
    /\ \A b \in a.lat_min : lat >= b
    /\ \A b \in a.lat_max : lat <= b
in_bounds_exclusive(lon, lat, a) ==
    /\ \A b \in a.lon_min : lon > b
    /\ \A b \in a.lon_max : lon < b
    /\ \A b \in a.lat_min : lat > b
    /\ \A b \in a.lat_max : lat < b
in_bounds(lon, lat, a) ==
    /\ \A b \in a.lon_min : lon >= b
    /\ \A b \in a.lon_max : lon <= b
    /\ \A b \in a.lat_min : lat >= b
    /\ \A b \in a.lat_max : lat <= b

spatial_mask(pc_, a) ==
    [k \in 1..Len(pc_.lon) |-> in_bounds(pc_.lon[k], pc_.lat[k], a)]

(* ------------------------------ the writer ----------------------------- *)
INTENSITY_OFFSET == 10000
UINT16_MAX == 65535

\* (v + 0.1) * 10000 for one value v, in tenths: v is in 1e-5 units, so the
\* product is (v + 10000) / 10.
las_scaled_no_offset(v) == v
las_scaled(v) == v + INTENSITY_OFFSET

\* np.clip(..., 0, 65535) of the product, in tenths
las_clipped(v) ==
    LET t == las_scaled(v)
    IN  IF t < 0 THEN 0
        ELSE IF t > UINT16_MAX * 10 THEN UINT16_MAX * 10
        ELSE t

\* np.clip((v + 0.1) * 10000, 0, 65535).astype(np.uint16) for one value.  The cast
\* cuts the fraction off.  NaN passes np.clip as NaN and its cast to an unsigned
\* integer is undefined: nan_cast is the value the build yields for it.
las_intensity_wrap(x, nan_cast) ==
    CASE x.kind = "fin" ->
           LET t == las_scaled(x.val)
           IN  IF t < 0 THEN 0 ELSE (t \div 10) % (UINT16_MAX + 1)
      [] x.kind = "inf" -> IF x.val = 1 THEN UINT16_MAX ELSE 0
      [] x.kind = "nan" -> nan_cast
las_intensity(x, nan_cast) ==
    CASE x.kind = "fin" -> las_clipped(x.val) \div 10
      [] x.kind = "inf" -> IF x.val = 1 THEN UINT16_MAX ELSE 0
      [] x.kind = "nan" -> nan_cast

\* The values the cast of a NaN among the intensities may yield
nan_casts(c) ==
    IF \E k \in 1..Len(c.intensity_532) : c.intensity_532[k].kind = "nan"
      THEN 0..UINT16_MAX ELSE {0}

AbsentLas == [status |-> "absent", cloud |-> EmptyCloud, intensity |-> <<>>,
              backscatter_1064 |-> <<>>]
PartialLas == [status |-> "partial", cloud |-> EmptyCloud, intensity |-> <<>>,
               backscatter_1064 |-> <<>>]
\* The LAS file las.write leaves after a complete write of the point cloud c:
\* the arrays given to las.x, las.y, las.z and las.gps_time, the intensity
\* dimension and the extra dimension backscatter_1064
written_las(c, nan_cast) ==
    [status |-> "complete", cloud |-> c,
     intensity |-> [k \in 1..Len(c.intensity_532) |->
                      las_intensity(c.intensity_532[k], nan_cast)],
     backscatter_1064 |-> c.intensity_1064]

(* ------------------------------- the state ----------------------------- *)
VARIABLES
    entry,        \* what runs: "tiled" (convert_tiled.py as a script), "convert" (a
                  \* call of convert_calipso_to_las), "build", "write", "altitudes"
    have_input,   \* tiled: sys.argv names an input file
    file,         \* the input HDF file
    args,         \* the bounds of the running convert_calipso_to_las call
    out_path,     \* its output path
    pc,           \* position in the code
    handles,      \* number of open SD handles
    exc,          \* the exception in flight, NoExc if none
    data,         \* read_calipso_hdf's result
    flat,         \* create_point_cloud's six candidate arrays
    point_cloud,  \* convert_calipso_to_las's point_cloud
    las,          \* the LAS file at each output path
    copc,         \* whether the COPC file of each tile exists
    pdal_calls,   \* subprocess.run calls made for each tile
    tile_idx,     \* 1-based index of the tile of the for loop, 0 before it
    log,          \* the per-tile lines printed
    exit_code,    \* None while the script runs, then Some(status)
    alt_n,        \* altitudes: the n_bins of the call
    alt_out       \* altitudes: the array returned

vars == <<entry, have_input, file, args, out_path, pc, handles, exc, data, flat,
          point_cloud, las, copc, pdal_calls, tile_idx, log, exit_code, alt_n, alt_out>>

driver_vars == <<copc, pdal_calls, tile_idx, log, exit_code>>
alt_vars == <<alt_n, alt_out>>
call_vars == <<args, out_path>>
local_vars == <<data, flat, point_cloud>>

IsPipelineFile(f) == IsGoodFile(f, PipelineCells) \/ f \in BrokenFiles

InitCommon ==
    /\ handles = 0
    /\ exc = NoExc
    /\ flat = EmptyCloud
    /\ point_cloud = EmptyCloud
    /\ las = [p \in Paths |-> AbsentLas]
    /\ copc = [t \in TileNames |-> FALSE]
    /\ pdal_calls = [t \in TileNames |-> 0]
    /\ tile_idx = 0
    /\ log = <<>>
    /\ exit_code = None

NoAltCall ==
    /\ alt_n = 0
    /\ alt_out = <<>>

\* python convert_tiled.py [input.hdf]
InitTiled ==
    /\ entry = "tiled"
    /\ have_input \in BOOLEAN
    /\ IF have_input THEN IsPipelineFile(file) ELSE file = EmptyFile
    /\ args = NoArgs
    /\ out_path = "single"
    /\ pc = "tiled_main"
    /\ data = EmptyData
    /\ InitCommon
    /\ NoAltCall

\* convert_calipso_to_las(hdf_path, output_path, lon_min, lon_max, lat_min, lat_max)
InitConvert ==
    /\ entry = "convert"
    /\ have_input = TRUE
    /\ IsPipelineFile(file)
    /\ args \in ArgChoices
    /\ out_path = "single"
    /\ pc = "open"
    /\ data = EmptyData
    /\ InitCommon
    /\ NoAltCall

Init == InitTiled \/ InitConvert

\* create_point_cloud(data) on any reader-shaped dictionary
InitBuild ==
    /\ entry = "build"
    /\ have_input = TRUE
    /\ IsGoodFile(file, BuilderCells)
    /\ args = NoArgs
    /\ out_path = "single"
    /\ pc = "flatten"
    /\ data = reader_output(file)
    /\ InitCommon
    /\ NoAltCall

\* get_calipso_altitudes(n_bins)
InitAlt ==
    /\ entry = "altitudes"
    /\ have_input = TRUE
    /\ file = EmptyFile
    /\ args = NoArgs
    /\ out_path = "single"
    /\ pc = "alt_call"
    /\ data = EmptyData
    /\ InitCommon
    /\ alt_n \in 0..MaxBins
    /\ alt_out = <<>>

\* A profile of one bin: its latitude and its cell.  Latitudes at the ends of
\* the range, at the three shared band edges, inside a band and out of range;
\* one profile holds the fill value.
TileProfileSamples ==
    { [lat |-> l, cell |-> <<Fin(0), Fin(0)>>] : l \in {-90, -30, 0, 30, 45, 90, 91} }
    \cup { [lat |-> 0, cell |-> <<Fin(-999900000), Fin(-999900000)>>] }

\* file is a readable file of one bin per profile; profile i has longitude 10 * i
IsTileFile(f) ==
    \E P \in 1..MaxTileProfiles : \E ps \in [1..P -> TileProfileSamples] :
      f = MkFile(TRUE, {}, P, 1,
                 [i \in 1..P |-> [lat |-> ps[i].lat, lon |-> 10 * i, time |-> 100 * i]],
                 [i \in 1..P |-> [j \in 1..1 |-> ps[i].cell]])

\* python convert_tiled.py input.hdf on files with points on and off the band edges
InitTiles ==
    /\ entry = "tiled"
    /\ have_input = TRUE
    /\ IsTileFile(file)
    /\ args = NoArgs
    /\ out_path = "single"
    /\ pc = "tiled_main"
    /\ data = EmptyData
    /\ InitCommon
    /\ NoAltCall

\* Cells whose 532 nm intensity is at and next to the bounds of the validity mask
\* and around -0.1, where the scaled intensity is 0
StoreCells == { <<Fin(-20000), Fin(0)>>,
                <<Fin(-19999), Fin(0)>>,
                <<Fin(-10000), Fin(0)>>,
                <<Fin(-9999), Fin(0)>>,
                <<Fin(0), Fin(100000)>>,
                <<Fin(349999), Fin(0)>>,
                <<Fin(350000), Fin(0)>> }

\* convert_calipso_to_las without bounds, from the reader's output on
InitStore ==
    /\ entry = "convert"
    /\ have_input = TRUE
    /\ IsGoodFile(file, StoreCells)
    /\ args = NoArgs
    /\ out_path = "single"
    /\ pc = "flatten"
    /\ data = reader_output(file)
    /\ InitCommon
    /\ NoAltCall

\* <<532 nm, 1064 nm>> of a point handed to write_las: around the two clips, with
\* and without a fraction to cut off
WriterCells == { <<Fin(0), Fin(123)>>,
                 <<Fin(5), Fin(-7)>>,
                 <<Fin(-9999), Fin(123)>>,
                 <<Fin(-10000), Fin(-7)>>,
                 <<Fin(-10001), Fin(123)>>,
                 <<Fin(-50000), Fin(-7)>>,
                 <<Fin(645349), Fin(123)>>,
                 <<Fin(645350), Fin(-7)>>,
                 <<Fin(650000), Fin(123)>>,
                 <<Fin(700000), Fin(-7)>>,
                 <<PosInf, Fin(123)>>,
                 <<NegInf, PosInf>> }

\* The point cloud with the given <<532, 1064>> pairs
cloud_of(cells) ==
    [lon |-> [k \in 1..Len(cells) |-> 10 * k],
     lat |-> [k \in 1..Len(cells) |-> -k],
     alt |-> [k \in 1..Len(cells) |-> Rat(k, 1)],
     intensity_532 |-> [k \in 1..Len(cells) |-> cells[k][1]],
     intensity_1064 |-> [k \in 1..Len(cells) |-> cells[k][2]],
     gps_time |-> [k \in 1..Len(cells) |-> 100 * k]]

\* write_las(point_cloud, output_path) on any point cloud
InitWrite ==
    /\ entry = "write"
    /\ have_input = TRUE
    /\ file = EmptyFile
    /\ args = NoArgs
    /\ out_path = "single"
    /\ pc = "write"
    /\ data = EmptyData
    /\ handles = 0
    /\ exc = NoExc
    /\ flat = EmptyCloud
    /\ \/ \E n \in 0..MaxWritePoints : \E cells \in [1..n -> WriterCells] :
            point_cloud = cloud_of(cells)
       \/ point_cloud = cloud_of(<< <<NaN, Fin(123)>> >>)
    /\ las = [p \in Paths |-> AbsentLas]
    /\ copc = [t \in TileNames |-> FALSE]
    /\ pdal_calls = [t \in TileNames |-> 0]
    /\ tile_idx = 0
    /\ log = <<>>
    /\ exit_code = None
    /\ NoAltCall

(* --------------------------- read_calipso_hdf -------------------------- *)
\* SD(str(hdf_path), SDC.READ): a handle, or HDF4Error with nothing opened
ReadOpen ==
    /\ pc = "open"
    /\ IF file.openable
         THEN /\ handles' = handles + 1
              /\ exc' = NoExc
              /\ pc' = "read_body"
         ELSE /\ handles' = handles
              /\ exc' = Exc("HDF4Error", "SD")
              /\ pc' = "raise"
    /\ UNCHANGED <<entry, have_input, file, call_vars, local_vars, las, driver_vars,
                   alt_vars>>

\* The exception the try block ends with, NoExc if it runs to its end: select()
\* of an absent dataset, a failing get(), and min()/max() of a zero-size array
\* in the diagnostics.
read_body_exc(f, io_fault) ==
    IF f.missing # {} THEN Exc("HDF4Error", "select")
    ELSE IF io_fault THEN Exc("HDF4Error", "get")
    ELSE IF f.shape[1] = 0 \/ f.shape[2] = 0 THEN Exc("ValueError", "read_min")
    ELSE NoExc

\* The body of the try block
ReadBody ==
    /\ pc = "read_body"
    /\ \E io_fault \in BOOLEAN :
         /\ exc' = read_body_exc(file, io_fault)
         /\ data' = IF exc' = NoExc THEN reader_output(file) ELSE data
    /\ pc' = "read_finally"
    /\ UNCHANGED <<entry, have_input, file, call_vars, handles, flat, point_cloud,
                   las, driver_vars, alt_vars>>

\* finally: hdf.end(), then the return or the exception goes on
ReadFinally_leak ==
    /\ pc = "read_finally"
    /\ handles' = IF exc = NoExc THEN handles - 1 ELSE handles
    /\ pc' = IF exc = NoExc THEN "flatten" ELSE "raise"
    /\ UNCHANGED <<entry, have_input, file, call_vars, exc, local_vars, las,
                   driver_vars, alt_vars>>
ReadFinally ==
    /\ pc = "read_finally"
    /\ handles' = handles - 1
    /\ pc' = IF exc = NoExc THEN "flatten" ELSE "raise"
    /\ UNCHANGED <<entry, have_input, file, call_vars, exc, local_vars, las,
                   driver_vars, alt_vars>>

(* -------------------------- create_point_cloud ------------------------- *)
\* Lines 125-149: the candidate arrays
Flatten ==
    /\ pc = "flatten"
    /\ flat' = candidates(data)
    /\ pc' = "mask"
    /\ UNCHANGED <<entry, have_input, file, call_vars, handles, exc, data,
                   point_cloud, las, driver_vars, alt_vars>>

\* Lines 151-171: the validity mask and the returned dictionary
Mask ==
    /\ pc = "mask"
    /\ point_cloud' = masked_cloud(flat)
    /\ pc' = "filter"
    /\ UNCHANGED <<entry, have_input, file, call_vars, handles, exc, data, flat,
                   las, driver_vars, alt_vars>>

(* ------------------------ convert_calipso_to_las ----------------------- *)
\* Lines 265-304: the spatial filter
Filter_no_raise ==
    /\ pc = "filter"
    /\ LET mask == spatial_mask(point_cloud, args)
       IN  /\ exc' = NoExc
           /\ point_cloud' = IF filter_applied(args)
                               THEN apply_mask(point_cloud, mask) ELSE point_cloud
           /\ pc' = "write"
    /\ UNCHANGED <<entry, have_input, file, call_vars, handles, data, flat, las,
                   driver_vars, alt_vars>>
Filter ==
    /\ pc = "filter"
    /\ LET mask == spatial_mask(point_cloud, args)
           n_after == np_sum(mask)
       IN  IF filter_applied(args) /\ n_after = 0
             THEN /\ exc' = Exc("ValueError", "no_points")
                  /\ pc' = "raise"
                  /\ UNCHANGED point_cloud
             ELSE /\ exc' = NoExc
                  /\ point_cloud' = IF filter_applied(args)
                                      THEN apply_mask(point_cloud, mask)
                                      ELSE point_cloud
                  /\ pc' = "write"
    /\ UNCHANGED <<entry, have_input, file, call_vars, handles, data, flat, las,
                   driver_vars, alt_vars>>

(* ------------------------------ write_las ------------------------------ *)
\* Line 307: write_las(point_cloud, output_path).  min() of an empty array raises
\* before the file is touched; las.write may fail to open the destination, or
\* fail after it has created it.
Write ==
    /\ pc = "write"
    /\ IF Len(point_cloud.lon) = 0
         THEN /\ exc' = Exc("ValueError", "write_min")
              /\ pc' = "raise"
              /\ UNCHANGED las
         ELSE \E outcome \in {"ok", "open_fault", "write_fault"},
                 nan_cast \in nan_casts(point_cloud) :
                /\ exc' = IF outcome = "ok" THEN NoExc ELSE Exc("OSError", "las_write")
                /\ pc' = IF outcome = "ok" THEN "return" ELSE "raise"
                /\ las' = CASE outcome = "ok" ->
                                 [las EXCEPT ![out_path] = written_las(point_cloud, nan_cast)]
                            [] outcome = "open_fault" -> las
                            [] outcome = "write_fault" ->
                                 [las EXCEPT ![out_path] = PartialLas]
    /\ UNCHANGED <<entry, have_input, file, call_vars, handles, local_vars,
                   driver_vars, alt_vars>>

(* --------------------------- convert_with_tiles ------------------------ *)
NumTiles == Len(LatitudeTiles)
Tile == LatitudeTiles[tile_idx]
Logged(name, event) == Append(log, [tile |-> name, event |-> event])

\* __main__, lines 143-155: usage and exit 1 without an input argument
TiledMain ==
    /\ pc = "tiled_main"
    /\ IF have_input
         THEN /\ pc' = "tiled_setup"
              /\ UNCHANGED exit_code
         ELSE /\ pc' = "exit"
              /\ exit_code' = Some(1)
    /\ UNCHANGED <<entry, have_input, file, call_vars, handles, exc, local_vars, las,
                   copc, pdal_calls, tile_idx, log, alt_vars>>

\* Lines 22-55: output_dir.mkdir(exist_ok=True) may raise; nothing catches it here
TiledSetup ==
    /\ pc = "tiled_setup"
    /\ \E mkdir_ok \in BOOLEAN :
         IF mkdir_ok
           THEN /\ tile_idx' = 1
                /\ pc' = "loop"
                /\ UNCHANGED exc
           ELSE /\ exc' = Exc("OSError", "mkdir")
                /\ pc' = "top_handler"
                /\ UNCHANGED tile_idx
    /\ UNCHANGED <<entry, have_input, file, call_vars, handles, local_vars, las,
                   copc, pdal_calls, log, exit_code, alt_vars>>

\* Lines 57-81: the next tile; its bounds go to a fresh convert_calipso_to_las call
TileBegin ==
    /\ pc = "loop"
    /\ tile_idx <= NumTiles
    /\ args' = [lon_min |-> None, lon_max |-> None,
                lat_min |-> Some(Tile.lat_min), lat_max |-> Some(Tile.lat_max)]
    /\ out_path' = Tile.name
    /\ data' = EmptyData
    /\ flat' = EmptyCloud
    /\ point_cloud' = EmptyCloud
    /\ log' = Logged(Tile.name, "processing")
    /\ pc' = "open"
    /\ UNCHANGED <<entry, have_input, file, handles, exc, las, copc, pdal_calls,
                   tile_idx, exit_code, alt_vars>>

\* Line 82: the call returned
TileLasOk ==
    /\ entry = "tiled"
    /\ pc = "return"
    /\ log' = Logged(Tile.name, "las_created")
    /\ pc' = "pdal"
    /\ UNCHANGED <<entry, have_input, file, call_vars, handles, exc, local_vars, las,
                   copc, pdal_calls, tile_idx, exit_code, alt_vars>>

\* Lines 83-85: except Exception: print, continue
TileLasError_uncaught ==
    /\ entry = "tiled"
    /\ pc = "raise"
    /\ pc' = "top_handler"
    /\ UNCHANGED <<entry, have_input, file, call_vars, handles, exc, local_vars, las,
                   copc, pdal_calls, tile_idx, log, exit_code, alt_vars>>
TileLasError_no_continue ==
    /\ entry = "tiled"
    /\ pc = "raise"
    /\ log' = Logged(Tile.name, "las_error")
    /\ exc' = NoExc
    /\ pc' = "pdal"
    /\ UNCHANGED <<entry, have_input, file, call_vars, handles, local_vars, las,
                   copc, pdal_calls, tile_idx, exit_code, alt_vars>>
TileLasError ==
    /\ entry = "tiled"
    /\ pc = "raise"
    /\ log' = Logged(Tile.name, "las_error")
    /\ exc' = NoExc
    /\ tile_idx' = tile_idx + 1
    /\ pc' = "loop"
    /\ UNCHANGED <<entry, have_input, file, call_vars, handles, local_vars, las,
                   copc, pdal_calls, exit_code, alt_vars>>

\* Lines 87-136: subprocess.run([pdal, 'pipeline', '--stdin'], check=True) and
\* copc_path.stat().  ok: exit 0 and the COPC file is there.  nonzero:
\* CalledProcessError, caught.  no_binary: the executable is absent and run()
\* raises FileNotFoundError; no_output: exit 0 without the file, and stat() raises
\* it: only CalledProcessError is caught, so either leaves the function.
Pdal ==
    /\ pc = "pdal"
    /\ pdal_calls' = [pdal_calls EXCEPT ![Tile.name] = @ + 1]
    /\ \E outcome \in {"ok", "nonzero", "no_binary", "no_output"} :
         CASE outcome = "ok" ->
                /\ copc' = [copc EXCEPT ![Tile.name] = TRUE]
                /\ log' = Logged(Tile.name, "copc_created")
                /\ tile_idx' = tile_idx + 1
                /\ pc' = "loop"
                /\ UNCHANGED exc
           [] outcome = "nonzero" ->
                /\ log' = Logged(Tile.name, "copc_error")
                /\ tile_idx' = tile_idx + 1
                /\ pc' = "loop"
                /\ UNCHANGED <<copc, exc>>
           [] outcome = "no_binary" ->
                /\ exc' = Exc("FileNotFoundError", "subprocess_run")
                /\ pc' = "top_handler"
                /\ UNCHANGED <<copc, log, tile_idx>>
           [] outcome = "no_output" ->
                /\ log' = Logged(Tile.name, "copc_created")
                /\ exc' = Exc("FileNotFoundError", "stat")
                /\ pc' = "top_handler"
                /\ UNCHANGED <<copc, tile_idx>>
    /\ UNCHANGED <<entry, have_input, file, call_vars, handles, local_vars, las,
                   exit_code, alt_vars>>

\* Lines 138-141 and the end of __main__: the loop is over, the function returns
\* and the script ends with status 0
TiledReturn_strict ==
    /\ pc = "loop"
    /\ tile_idx > NumTiles
    /\ exit_code' = IF \A t \in TileNames : copc[t] THEN Some(0) ELSE Some(1)
    /\ pc' = "exit"
    /\ UNCHANGED <<entry, have_input, file, call_vars, handles, exc, local_vars, las,
                   copc, pdal_calls, tile_idx, log, alt_vars>>
TiledReturn ==
    /\ pc = "loop"
    /\ tile_idx > NumTiles
    /\ exit_code' = Some(0)
    /\ pc' = "exit"
    /\ UNCHANGED <<entry, have_input, file, call_vars, handles, exc, local_vars, las,
                   copc, pdal_calls, tile_idx, log, alt_vars>>

\* Lines 159-163: except Exception: print, traceback, sys.exit(1)
TopHandler ==
    /\ pc = "top_handler"
    /\ exit_code' = Some(1)
    /\ pc' = "exit"
    /\ UNCHANGED <<entry, have_input, file, call_vars, handles, exc, local_vars, las,
                   copc, pdal_calls, tile_idx, log, alt_vars>>

(* -------------------------- get_calipso_altitudes ---------------------- *)
CallAltitudes ==
    /\ pc = "alt_call"
    /\ alt_out' = get_calipso_altitudes(alt_n)
    /\ pc' = "alt_done"
    /\ UNCHANGED <<entry, have_input, file, call_vars, handles, exc, local_vars, las,
                   driver_vars, alt_n>>

(* ---------------------------- specifications --------------------------- *)
Next ==
    \/ TiledMain \/ TiledSetup \/ TileBegin \/ TileLasOk \/ TileLasError
    \/ Pdal \/ TiledReturn \/ TopHandler
    \/ ReadOpen \/ ReadBody \/ ReadFinally \/ Flatten \/ Mask \/ Filter \/ Write

\* The script convert_tiled.py, and direct calls of convert_calipso_to_las
Spec == Init /\ [][Next]_vars

NextBuild == Flatten \/ Mask
\* create_point_cloud applied to reader-shaped dictionaries
SpecBuild == InitBuild /\ [][NextBuild]_vars

\* The tiling script on files with points on and off the band edges
SpecTiles == InitTiles /\ [][Next]_vars

NextStore == Flatten \/ Mask \/ Filter \/ Write
\* From the reader's output to the LAS file, without bounds
SpecStore == InitStore /\ [][NextStore]_vars

NextWrite == Write
\* write_las applied to point clouds
SpecWrite == InitWrite /\ [][NextWrite]_vars

NextAlt == CallAltitudes
\* get_calipso_altitudes applied to bin counts
SpecAlt == InitAlt /\ [][NextAlt]_vars

(* ------------------------- vocabulary of the claims -------------------- *)
CloudFields == {"lon", "lat", "alt", "intensity_532", "intensity_1064", "gps_time"}
NumPoints(c) == Len(c.lon)

\* How many indices of K are at most k: the place of point k among the kept ones
Rank(K, k) == Cardinality({m \in K : m <= k})

\* out holds exactly the points of c with an index in K, each with its own six
\* attributes, in their order in c
IsSelection(out, c, K) ==
    \A f \in CloudFields :
      /\ Len(out[f]) = Cardinality(K)
      /\ \A k \in K : out[f][Rank(K, k)] = c[f][k]

\* Both intensities finite and strictly inside (-0.2, 3.5) and (-0.1, 2.6)
StrictlyValid(a, b) ==
    /\ a.kind = "fin" /\ b.kind = "fin"
    /\ -20000 < a.val /\ a.val < 350000
    /\ -10000 < b.val /\ b.val < 260000

ValidIdx(c) ==
    { k \in 1..NumPoints(c) : StrictlyValid(c.intensity_532[k], c.intensity_1064[k]) }

\* The point (lon, lat) meets every bound of a that is supplied, inclusively
MeetsBounds(lon, lat, a) ==
    /\ (a.lon_min = None \/ \E b \in a.lon_min : lon >= b)
    /\ (a.lon_max = None \/ \E b \in a.lon_max : lon <= b)
    /\ (a.lat_min = None \/ \E b \in a.lat_min : lat >= b)
    /\ (a.lat_max = None \/ \E b \in a.lat_max : lat <= b)

InBoundsIdx(c, a) == { k \in 1..NumPoints(c) : MeetsBounds(c.lon[k], c.lat[k], a) }

\* The running convert_calipso_to_las call is past its spatial filter
AfterFilter ==
    \/ pc \in {"write", "return", "pdal"}
    \/ pc = "raise" /\ exc.at \in {"no_points", "write_min", "las_write"}

(* --------------------------------- C1 ---------------------------------- *)
\* C1: for reader output with P profiles and A altitude bins, each of the six
\* candidate arrays create_point_cloud flattens, before the validity mask, has
\* length P * A.
C1_CandidateCount ==
    pc \in {"mask", "filter"} =>
      \A f \in CloudFields : Len(flat[f]) = file.shape[1] * file.shape[2]

C1_Witness ==
    /\ pc = "mask" /\ file.shape = <<2, 2>> /\ NumPoints(flat) = 4

(* --------------------------------- C2 ---------------------------------- *)
\* C2: candidate i * n_altitudes + j carries the latitude, longitude and time of
\* profile i, the altitude of bin j and the two intensities of cell (i, j).
C2_RowMajorPairing ==
    pc \in {"mask", "filter"} =>
      LET P == file.shape[1]
          A == file.shape[2]
      IN  \A i \in 0..(P - 1), j \in 0..(A - 1) :
            LET k == i * A + j + 1
            IN  /\ flat.lat[k] = data.lat[i + 1]
                /\ flat.lon[k] = data.lon[i + 1]
                /\ flat.gps_time[k] = data.profile_time[i + 1]
                /\ flat.alt[k] = data.altitudes[j + 1]
                /\ flat.intensity_532[k] = data.backscatter_532[i + 1][j + 1]
                /\ flat.intensity_1064[k] = data.backscatter_1064[i + 1][j + 1]

C2_Witness ==
    /\ pc = "mask" /\ file.shape = <<2, 2>>
    /\ data.lat[1] # data.lat[2] /\ data.lon[1] # data.lon[2]
    /\ data.profile_time[1] # data.profile_time[2]
    /\ data.backscatter_532[1][2] # data.backscatter_532[2][1]
    /\ flat.lat[3] = data.lat[2] /\ flat.alt[3] = data.altitudes[1]

(* --------------------------------- C3 ---------------------------------- *)
\* C3: create_point_cloud returns exactly the candidates whose 532 nm intensity
\* is strictly within (-0.2, 3.5), whose 1064 nm intensity is strictly within
\* (-0.1, 2.6) and whose intensities are both finite.
C3_ValidityFilter ==
    pc = "filter" => IsSelection(point_cloud, flat, ValidIdx(flat))

C3_Witness ==
    /\ pc = "filter"
    /\ NumPoints(point_cloud) = 1
    /\ \E k \in 1..NumPoints(flat) :
         flat.intensity_532[k] = Fin(400000) /\ flat.intensity_1064[k] = Fin(0)
    /\ \E k \in 1..NumPoints(flat) : flat.intensity_532[k] = Fin(350000)
    /\ \E k \in 1..NumPoints(flat) : flat.intensity_532[k] = NaN

(* --------------------------------- C4 ---------------------------------- *)
\* C4: with all four bounds absent the spatial filter is a no-op: it raises
\* nothing, and write_las is handed the six arrays create_point_cloud returned,
\* the same points in the same order.
C4_NoBoundsNoOp ==
    (entry = "convert" /\ args = NoArgs /\ AfterFilter) =>
      /\ exc.at # "no_points"
      /\ pc = "write" => point_cloud = masked_cloud(flat)

C4_Witness ==
    /\ entry = "convert" /\ args = NoArgs /\ pc = "write"
    /\ NumPoints(point_cloud) = 2
    /\ NumPoints(flat) = 4
    /\ point_cloud.lat[1] # point_cloud.lat[2]

(* --------------------------------- C5 ---------------------------------- *)
\* C5: for any combination of supplied and absent bounds the spatial filter
\* keeps exactly the points meeting every supplied bound inclusively, with the
\* same selection in all six arrays and the kept points in their order; it
\* raises only when no point meets them.
C5_SpatialFilter ==
    AfterFilter =>
      LET built == masked_cloud(flat)
          K == InBoundsIdx(built, args)
      IN  /\ pc = "write" => IsSelection(point_cloud, built, K)
          /\ exc.at = "no_points" => K = {}

C5_Witness ==
    /\ pc = "write"
    /\ args.lat_min = Some(0) /\ args.lon_max = Some(0) /\ args.lon_min = None
    /\ NumPoints(masked_cloud(flat)) = 4
    /\ masked_cloud(flat).lat[1] = -60
    /\ NumPoints(point_cloud) = 2
    /\ point_cloud.lat[1] = 0 /\ point_cloud.lon[1] = 0
    /\ point_cloud.intensity_532[1] # point_cloud.intensity_532[2]

(* --------------------------------- C6 ---------------------------------- *)
\* C6: when a bound is supplied and no point meets all supplied bounds, the call
\* raises the no-points ValueError, never enters write_las, and leaves no file
\* at its output path.
C6_EmptyFilterRaises ==
    LET built == masked_cloud(flat)
    IN  (AfterFilter /\ args # NoArgs /\ InBoundsIdx(built, args) = {}) =>
          /\ pc = "raise"
          /\ exc = Exc("ValueError", "no_points")
          /\ las[out_path] = AbsentLas

C6_Witness ==
    /\ pc = "raise" /\ exc = Exc("ValueError", "no_points")
    /\ NumPoints(masked_cloud(flat)) >= 2
    /\ args.lat_min # None

(* --------------------------------- C7 ---------------------------------- *)
IsFailure(ev) == ev \in {"las_error", "copc_error"}
TileIndex(name) == CHOOSE i \in 1..NumTiles : LatitudeTiles[i].name = name

\* C7: a failing tile (the conversion raising, so an empty filter result or a
\* writer failure among others, or PDAL exiting non-zero) is logged in the loop
\* and the next tile is attempted: such a failure never reaches the top-level
\* handler, and a run that ends with the loop has processed all four tiles.
C7_TileFailureContinues ==
    entry = "tiled" =>
      /\ pc = "top_handler" => exc.at \in {"mkdir", "subprocess_run", "stat"}
      /\ \A n \in 1..Len(log) :
           IsFailure(log[n].event) =>
             LET i == TileIndex(log[n].tile)
             IN  IF n < Len(log)
                   THEN /\ i < NumTiles
                        /\ log[n + 1] = [tile |-> LatitudeTiles[i + 1].name,
                                         event |-> "processing"]
                   ELSE /\ tile_idx = i + 1
                        /\ pc \in {"loop", "exit"}
                        /\ pc = "exit" => (i = NumTiles /\ exit_code = Some(0))
      /\ (pc = "exit" /\ exit_code = Some(0)) =>
           \A i \in 1..NumTiles :
             \E n \in 1..Len(log) :
               log[n] = [tile |-> LatitudeTiles[i].name, event |-> "processing"]

C7_Witness ==
    /\ entry = "tiled" /\ pc = "exit" /\ exit_code = Some(0)
    /\ \E n \in 1..Len(log) : log[n] = [tile |-> "south", event |-> "las_error"]
    /\ \E n \in 1..Len(log) : log[n] = [tile |-> "south_mid", event |-> "copc_error"]
    /\ \E n \in 1..Len(log) : log[n] = [tile |-> "north_mid", event |-> "copc_created"]
    /\ \E n \in 1..Len(log) : log[n] = [tile |-> "north", event |-> "las_error"]
    /\ las["north_mid"].status = "complete"

(* --------------------------------- C8 ---------------------------------- *)
\* C8: the tiling script exits 0 whenever the tile loop ran to its end, whatever
\* the tiles' outcomes, and exits 1 only when an exception reached the top-level
\* handler or the input argument is missing.
C8_ExitStatus ==
    (entry = "tiled" /\ pc = "exit") =>
      /\ exit_code \in {Some(0), Some(1)}
      /\ tile_idx > NumTiles => exit_code = Some(0)
      /\ exit_code = Some(1) => (exc # NoExc \/ ~have_input)
      /\ exit_code = Some(0) => (tile_idx > NumTiles /\ exc = NoExc /\ have_input)

C8_Witness ==
    /\ entry = "tiled" /\ pc = "exit" /\ exit_code = Some(0)
    /\ \A i \in 1..NumTiles :
         \E n \in 1..Len(log) : /\ log[n].tile = LatitudeTiles[i].name
                                /\ IsFailure(log[n].event)
    /\ \A t \in TileNames : ~copc[t]

(* --------------------------------- C9 ---------------------------------- *)
\* C9: the HDF handle is open only inside read_calipso_hdf's try block: on every
\* way out (return, missing dataset, any other exception) it is closed before
\* the caller goes on, so none is open in the builder, the filter, the writer,
\* the PDAL step or a later tile.
C9_HandleReleased ==
    /\ handles \in {0, 1}
    /\ handles = 1 => pc \in {"read_body", "read_finally"}
    /\ pc \notin {"read_body", "read_finally"} => handles = 0

C9_Witness ==
    /\ entry = "tiled" /\ tile_idx = 2 /\ pc = "raise"
    /\ exc = Exc("HDF4Error", "get") /\ handles = 0
    /\ las["south"].status = "complete"

(* --------------------------------- C10 --------------------------------- *)
\* C10: for N >= 2 get_calipso_altitudes(N) has length N, starts at -2 km, ends
\* at 40 km, is strictly increasing and has equal steps of 42 / (N - 1) km.
C10_AltitudeGrid ==
    (pc = "alt_done" /\ alt_n >= 2) =>
      /\ Len(alt_out) = alt_n
      /\ RatEq(alt_out[1], Rat(-2, 1))
      /\ RatEq(alt_out[alt_n], Rat(40, 1))
      /\ \A k \in 1..(alt_n - 1) :
           /\ alt_out[k].d > 0 /\ alt_out[k + 1].d > 0
           /\ RatLt(alt_out[k], alt_out[k + 1])
           /\ RatEq(Rat(alt_out[k + 1].n * alt_out[k].d - alt_out[k].n * alt_out[k + 1].d,
                        alt_out[k].d * alt_out[k + 1].d),
                    Rat(42, alt_n - 1))

C10_Witness ==
    /\ pc = "alt_done" /\ alt_n = 43
    /\ RatEq(alt_out[2], Rat(-1, 1)) /\ RatEq(alt_out[43], Rat(40, 1))

(* --------------------------------- C11 --------------------------------- *)
\* clip((v + 0.1) * 10000, 0, 65535) cut to an integer, for v in 1e-5 units
ClipScale(v) ==
    IF v + 10000 <= 0 THEN 0
    ELSE IF v + 10000 >= 655350 THEN 65535
    ELSE (v + 10000) \div 10

\* C11: write_las stores clip((v + 0.1) * 10000, 0, 65535), cut to an unsigned
\* 16-bit integer, as the intensity of each point: always within 0..65535, 1000
\* for v = 0.0, 65535 for every v >= 6.5, 0 for every v <= -0.1; the 1064 nm
\* intensity goes unchanged to the extra dimension backscatter_1064.
C11_IntensityRescale ==
    (entry = "write" /\ pc = "return") =>
      LET f == las[out_path]
      IN  /\ f.status = "complete"
          /\ Len(f.intensity) = NumPoints(point_cloud)
          /\ f.backscatter_1064 = point_cloud.intensity_1064
          /\ \A k \in 1..NumPoints(point_cloud) :
               LET v == point_cloud.intensity_532[k]
                   stored == f.intensity[k]
               IN  /\ stored \in 0..65535
                   /\ v.kind = "fin" => stored = ClipScale(v.val)
                   /\ v = Fin(0) => stored = 1000
                   /\ (v = PosInf \/ (v.kind = "fin" /\ v.val >= 650000)) => stored = 65535
                   /\ (v = NegInf \/ (v.kind = "fin" /\ v.val <= -10000)) => stored = 0

C11_Witness ==
    /\ entry = "write" /\ pc = "return"
    /\ point_cloud.intensity_532 = <<Fin(0), Fin(650000)>>
    /\ las[out_path].intensity = <<1000, 65535>>
    /\ las[out_path].backscatter_1064 = <<Fin(123), Fin(123)>>

(* --------------------------------- C12 --------------------------------- *)
\* C12: an I/O fault at any step of write_las makes the call fail with the write
\* error, and the destination path never holds a partially written file: what is
\* at the destination is a complete output, there only after a successful write.
C12_NoPartialDestination ==
    entry = "write" =>
      /\ \A p \in Paths : las[p].status \in {"absent", "complete"}
      /\ las[out_path].status = "complete" => pc = "return"
      /\ pc = "raise" => exc.type \in {"OSError", "ValueError"}

(* --------------------------------- C13 --------------------------------- *)
\* C13: whenever the point set leaving the spatial-filter stage has zero points,
\* convert_calipso_to_las fails with the empty-result error of the filter stage
\* before write_las is invoked, also when no bound is supplied.
C13_EmptyAlwaysRaises ==
    (AfterFilter /\ NumPoints(point_cloud) = 0) =>
      pc = "raise" /\ exc = Exc("ValueError", "no_points")

(* --------------------------------- C15 --------------------------------- *)
\* The file opens, has every dataset, and its grids are empty or without bins
EmptyGridFile(f) ==
    f.openable /\ f.missing = {} /\ (f.shape[1] = 0 \/ f.shape[2] = 0)

\* C15: for reader output with empty grids or zero altitude bins the builder
\* returns six arrays of length zero, and the read-then-build chain reaches that
\* empty point set with no error raised earlier (a failing read of the file apart).
C15_EmptyGridReachesBuilder ==
    EmptyGridFile(file) =>
      /\ pc = "filter" => \A f \in CloudFields : Len(point_cloud[f]) = 0
      /\ pc \in {"read_finally", "raise"} =>
           exc = NoExc \/ exc.type = "HDF4Error" \/ AfterFilter

(* --------------------------------- C16 --------------------------------- *)
\* The event is in the log for the tile
HasLogged(name, event) ==
    \E n \in 1..Len(log) : log[n] = [tile |-> name, event |-> event]

\* Number of external-tool invocations so far, over the first i tiles
RECURSIVE PdalCallsUpTo(_)
PdalCallsUpTo(i) ==
    IF i = 0 THEN 0 ELSE PdalCallsUpTo(i - 1) + pdal_calls[LatitudeTiles[i].name]

\* C16: the external tool is invoked for a tile only after that tile's LAS
\* conversion returned successfully in the same iteration; a tile whose LAS step
\* failed gets no invocation; the number of invocations is the number of tiles
\* whose LAS step succeeded, at most one per tile.
C16_PdalOnlyAfterLas ==
    entry = "tiled" =>
      /\ \A i \in 1..NumTiles :
           LET t == LatitudeTiles[i].name
           IN  /\ pdal_calls[t] \in {0, 1}
               /\ pdal_calls[t] = 1 =>
                    /\ HasLogged(t, "las_created")
                    /\ ~HasLogged(t, "las_error")
                    /\ las[t].status = "complete"
                    /\ tile_idx >= i
               /\ HasLogged(t, "las_error") => pdal_calls[t] = 0
               /\ (pc = "pdal" /\ tile_idx = i) =>
                    (pdal_calls[t] = 0 /\ HasLogged(t, "las_created"))
      /\ pc # "pdal" =>
           PdalCallsUpTo(NumTiles)
             = Cardinality({ t \in TileNames : HasLogged(t, "las_created") })

C16_Witness ==
    /\ entry = "tiled" /\ pc = "exit" /\ exit_code = Some(0)
    /\ HasLogged("south", "las_error") /\ pdal_calls["south"] = 0
    /\ HasLogged("south_mid", "las_created") /\ pdal_calls["south_mid"] = 1
    /\ HasLogged("north_mid", "las_error") /\ pdal_calls["north_mid"] = 0
    /\ HasLogged("north", "las_created") /\ pdal_calls["north"] = 1
    /\ PdalCallsUpTo(NumTiles) = 2

(* --------------------------------- C14 --------------------------------- *)
\* Positions in the log at which a tile's iteration starts
Attempts(name) ==
    { n \in 1..Len(log) : log[n] = [tile |-> name, event |-> "processing"] }

\* The bounds a tile's band stands for
BandArgs(i) ==
    [lon_min |-> None, lon_max |-> None,
     lat_min |-> Some(LatitudeTiles[i].lat_min),
     lat_max |-> Some(LatitudeTiles[i].lat_max)]

\* C14: a run of convert_with_tiles attempts the four bands in the fixed order
\* south, south_mid, north_mid, north, each exactly once per run and one at a
\* time; what is written for a tile is the source file's valid points in that
\* tile's band, whatever happened to the earlier tiles.
C14_EachTileOnce ==
    (entry = "tiled" /\ tile_idx >= 1) =>
      /\ \A i \in 1..NumTiles :
           LET t == LatitudeTiles[i].name
               source == masked_cloud(candidates(reader_output(file)))
           IN  /\ Cardinality(Attempts(t)) <= 1
               /\ \A n \in Attempts(t) :
                    /\ i <= tile_idx
                    /\ \A j \in 1..(i - 1) :
                         \E m \in Attempts(LatitudeTiles[j].name) : m < n
               /\ las[t].status = "complete" =>
                    IsSelection(las[t].cloud, source, InBoundsIdx(source, BandArgs(i)))
               /\ pc = "exit" => Cardinality(Attempts(t)) = 1
      /\ \A n \in 1..Len(log) :
           log[n].event # "processing" =>
             \E m \in 1..(n - 1) :
               /\ log[m] = [tile |-> log[n].tile, event |-> "processing"]
               /\ \A k \in (m + 1)..n : log[k].event # "processing"

(* --------------------------------- C17 --------------------------------- *)
\* The four bands as stated: <<lowest, highest>> latitude of tile i
ClaimBands == << <<-90, -30>>, <<-30, 0>>, <<0, 30>>, <<30, 90>> >>
InClaimBand(i, lat) == ClaimBands[i][1] <= lat /\ lat <= ClaimBands[i][2]

\* The profiles of a one-bin file whose point is valid, and the tiles whose LAS
\* file holds the point of longitude lon (longitudes tell the points of a file
\* apart)
ValidProfiles ==
    { p \in 1..file.shape[1] : StrictlyValid(file.bs532[p][1], file.bs1064[p][1]) }
WrittenTiles(lon) ==
    { i \in 1..NumTiles :
        LET f == las[LatitudeTiles[i].name]
        IN  /\ f.status = "complete"
            /\ \E m \in 1..NumPoints(f.cloud) : f.cloud.lon[m] = lon }

\* The LAS step of tile i is over, and it failed only if the band has no point
TileSettled(i) ==
    \/ HasLogged(LatitudeTiles[i].name, "las_created")
    \/ /\ HasLogged(LatitudeTiles[i].name, "las_error")
       /\ \A p \in ValidProfiles : ~InClaimBand(i, file.lat[p])

\* C17: the four inclusive bands cover every valid point with latitude in
\* [-90, 90]: once every tile's LAS step is over without a fault, such a point
\* is in at least one tile; it is in more than one tile exactly when its latitude
\* is -30, 0 or 30, and then in exactly two adjacent tiles.
C17_BandsCover ==
    (entry = "tiled" /\ file.shape[2] = 1) =>
      LET settled == \A i \in 1..NumTiles : TileSettled(i)
      IN  /\ \A p \in ValidProfiles :
                LET lat == file.lat[p]
                    W == WrittenTiles(file.lon[p])
                IN  /\ \A i \in W : InClaimBand(i, lat)
                    /\ \A i \in 1..NumTiles :
                         HasLogged(LatitudeTiles[i].name, "las_created") =>
                           (i \in W <=> InClaimBand(i, lat))
                    /\ Cardinality(W) > 1 =>
                         /\ lat \in {-30, 0, 30}
                         /\ \E i \in 1..(NumTiles - 1) : W = {i, i + 1}
                    /\ settled =>
                         /\ (lat >= -90 /\ lat <= 90) => W # {}
                         /\ lat \in {-30, 0, 30} <=> Cardinality(W) > 1
                         /\ lat \in {-30, 0, 30} => Cardinality(W) = 2
          /\ \A p \in (1..file.shape[1]) \ ValidProfiles :
                WrittenTiles(file.lon[p]) = {}

C17_Witness ==
    /\ entry = "tiled" /\ pc = "exit" /\ exit_code = Some(0)
    /\ \A i \in 1..NumTiles : TileSettled(i)
    /\ file.lat = <<0, 45>> /\ ValidProfiles = {1, 2}
    /\ las["south"].status = "absent"
    /\ las["south_mid"].cloud.lat = <<0>>
    /\ las["north_mid"].cloud.lat = <<0>>
    /\ las["north"].cloud.lat = <<45>>
    /\ WrittenTiles(10) = {2, 3} /\ WrittenTiles(20) = {4}

(* --------------------------------- C18 --------------------------------- *)
\* C18: every point that passed the validity filter (532 nm intensity strictly
\* within (-0.2, 3.5)) is stored with an intensity of at least 0 and below 36000,
\* so the upper clip at 65535 is never reached; the lower clip is reached exactly
\* for the retained points with 532 nm intensity at or below -0.1, all stored as 0.
C18_RetainedIntensityRange ==
    (entry = "convert" /\ pc = "return") =>
      LET f == las[out_path]
      IN  /\ f.status = "complete"
          /\ IsSelection(f.cloud, flat, ValidIdx(flat))
          /\ \A k \in 1..NumPoints(f.cloud) :
               LET v == f.cloud.intensity_532[k]
                   stored == f.intensity[k]
               IN  /\ v.kind = "fin" /\ -20000 < v.val /\ v.val < 350000
                   /\ 0 <= stored /\ stored < 36000
                   /\ las_clipped(v.val) < 655350
                   /\ las_clipped(v.val) = 0 <=> v.val <= -10000
                   /\ v.val <= -10000 => stored = 0

C18_Witness ==
    /\ entry = "convert" /\ pc = "return"
    /\ flat.intensity_532 = <<Fin(-19999), Fin(350000), Fin(349999), Fin(-9999)>>
    /\ las[out_path].cloud.intensity_532 = <<Fin(-19999), Fin(349999), Fin(-9999)>>
    /\ las[out_path].intensity = <<0, 35999, 0>>

====
